---- MODULE Spec2Model ----
(***************************************************************************)
(* Model of src/Task5.py: the Amazon product scraper.                      *)
(*                                                                         *)
(* A Python str is a sequence of one-character strings, so that strip(),   *)
(* replace(), re.search() and the f-strings are computed, not assumed.     *)
(* A BeautifulSoup lookup that finds nothing (None) is NoTag; a local      *)
(* variable that has not been assigned yet is Unbound.                     *)
(***************************************************************************)
EXTENDS Integers, Sequences, FiniteSets, TLC

VARIABLES
    pc,              \* position of the process
    term_input,      \* what input() returned for the search term (line 165)
    pages_input,     \* what input() returned for the page count (line 171)
    search_term,     \* line 165 / 170
    pages_to_scrape, \* line 171
    scrapeCalled,    \* scrape_amazon_products was entered (line 179)
    page,            \* loop variable of line 37
    fetched,         \* the GET requests issued so far, with their outcome
    soup,            \* line 51: what each locator strategy finds in the page
    evaluated,       \* the find_all calls of lines 54-56 that were evaluated
    items,           \* line 54
    idx,             \* position of the loop of line 71 in items
    item,            \* loop variable of line 71: the container being probed
    loc,             \* locals name, price, rating, reviews, product_url
    lastResult,      \* what became of the container probed last
    products,        \* line 35: the accumulator
    origin,          \* for each record of products, the page and container it came from
    delay,           \* duration of the sleep in progress (0: not sleeping)
    pausedAfter,     \* the page after whose handling sleep() last returned
    scraped_data,    \* line 179
    csv,             \* what save_to_csv did
    exitReason       \* how the process ended

vars == <<pc, term_input, pages_input, search_term, pages_to_scrape, scrapeCalled,
          page, fetched, soup, evaluated, items, idx, item, loc, lastResult,
          products, origin, delay, pausedAfter, scraped_data, csv, exitReason>>

----------------------------------------------------------------------------
(* Bounds of the model *)

\* largest accepted page count the user types
MaxPagesInput == 2
\* largest number of elements one locator strategy finds in a page
MaxItems == 2

(* Program constants *)

MaxPageCount == 10
MinDelay == 2
MaxDelay == 4

----------------------------------------------------------------------------
(* Text *)

NoTag == <<"None">>
Unbound == <<"unbound">>
NA == <<"N", "/", "A">>
Zero == <<"0">>
Digits == <<"0", "1", "2", "3", "4", "5", "6", "7", "8", "9">>
Whitespace == {" ", "\t", "\n"}
base_url == <<"h", "t", "t", "p", "s", ":", "/", "/", "w", "w", "w", ".",
              "a", "m", "a", "z", "o", "n", ".", "c", "o", "m">>

IsDigit(c) == \E i \in 1..10 : Digits[i] = c

DigitVal(c) == (CHOOSE i \in 1..10 : Digits[i] = c) - 1

SetMin(S) == CHOOSE x \in S : \A y \in S : x <= y

SetMax(S) == CHOOSE x \in S : \A y \in S : x >= y

\* str.strip(): the text without its leading and trailing whitespace
Strip(s) ==
    LET keep == {i \in 1..Len(s) : s[i] \notin Whitespace}
    IN  IF keep = {} THEN <<>> ELSE SubSeq(s, SetMin(keep), SetMax(keep))

\* str.replace(old, new) for a one-character old and a new of length 0 or 1
RECURSIVE Replace(_, _, _)
Replace(s, old, new) ==
    IF s = <<>> THEN <<>>
    ELSE (IF s[1] = old THEN new ELSE <<s[1]>>) \o Replace(Tail(s), old, new)

\* re.search(r'(\d\.\d)', s).group(1), or NoTag when there is no match
SearchRating(s) ==
    LET hits == {i \in 1..(Len(s) - 2) :
                    IsDigit(s[i]) /\ s[i + 1] = "." /\ IsDigit(s[i + 2])}
    IN  IF hits = {} THEN NoTag ELSE SubSeq(s, SetMin(hits), SetMin(hits) + 2)

\* re.search(r'([\d,]+)', s).group(1), or NoTag when there is no match
SearchDigitsCommas(s) ==
    LET inClass(i) == IsDigit(s[i]) \/ s[i] = ","
        hits == {i \in 1..Len(s) : inClass(i)}
        first == SetMin(hits)
        ends == {j \in first..Len(s) : \A k \in first..j : inClass(k)}
    IN  IF hits = {} THEN NoTag ELSE SubSeq(s, first, SetMax(ends))

\* the value of a text of decimal digits
RECURSIVE ToNat(_)
ToNat(s) ==
    IF s = <<>> THEN 0
    ELSE ToNat(SubSeq(s, 1, Len(s) - 1)) * 10 + DigitVal(s[Len(s)])

\* int(s): [ok |-> FALSE] stands for ValueError
ParseInt(s) ==
    LET t == Strip(s)
        signed == t # <<>> /\ t[1] \in {"-", "+"}
        body == IF signed THEN Tail(t) ELSE t
    IN  IF body # <<>> /\ \A i \in 1..Len(body) : IsDigit(body[i])
        THEN [ok |-> TRUE,
              val |-> IF signed /\ t[1] = "-" THEN 0 - ToNat(body) ELSE ToNat(body)]
        ELSE [ok |-> FALSE, val |-> 0]

\* the text a user types for the number n
RECURSIVE NatText(_)
NatText(n) ==
    IF n < 10 THEN <<Digits[n + 1]>>
    ELSE NatText(n \div 10) \o <<Digits[(n % 10) + 1]>>

IntText(n) == IF n < 0 THEN <<"-">> \o NatText(0 - n) ELSE NatText(n)

----------------------------------------------------------------------------
(* The fields of one container (lines 73-120) *)

\* A container is what the lookups of lines 74-117 find in it:
\*   h2mini, h2, spanMedium : text of the element, or NoTag        (line 74)
\*   priceBox               : a span.a-price exists                (line 82)
\*   whole, fraction, range : text of the sub-element, or NoTag    (lines 84-89)
\*   iconAlt                : text of span.a-icon-alt, or NoTag    (line 95)
\*   spanBase, reviewsCount : text of the element, or NoTag        (lines 105, 107)
\*   link                   : a.a-link-normal exists               (lines 106, 117)
\*   linkText, href         : its text; its href, or NoTag         (lines 109, 118)

\* x or y, for lookups: a Tag is always truthy, None is falsy
OrTag(x, y) == IF x # NoTag THEN x ELSE y

\* lines 74-78
ExtractName(c) ==
    LET name_tag == OrTag(c.h2mini, OrTag(c.h2, c.spanMedium))
    IN  IF name_tag # NoTag THEN Strip(name_tag) ELSE NA

\* a faulty variant: a price box with a whole part only is formatted too
ExtractPriceWholeOnly(c) ==
    IF c.priceBox /\ c.whole # NoTag
    THEN <<"$">> \o Strip(c.whole) \o
         (IF c.fraction # NoTag THEN <<".">> \o Strip(c.fraction) ELSE <<>>)
    ELSE IF c.priceBox /\ c.range # NoTag THEN Strip(c.range) ELSE NA

\* lines 81-91
ExtractPrice(c) ==
    IF c.priceBox
    THEN IF c.whole # NoTag /\ c.fraction # NoTag
         THEN <<"$">> \o Strip(c.whole) \o <<".">> \o Strip(c.fraction)
         ELSE IF c.range # NoTag THEN Strip(c.range) ELSE NA
    ELSE NA

\* lines 94-100
ExtractRating(c) ==
    IF c.iconAlt # NoTag
    THEN LET rating_match == SearchRating(c.iconAlt)
         IN  IF rating_match # NoTag THEN rating_match ELSE NA
    ELSE NA

\* lines 103-113
ExtractReviews(c) ==
    LET reviews_tag == OrTag(c.spanBase,
                             OrTag(IF c.link THEN c.linkText ELSE NoTag, c.reviewsCount))
    IN  IF reviews_tag # NoTag
        THEN LET reviews_match == SearchDigitsCommas(Strip(reviews_tag))
             IN  IF reviews_match # NoTag
                 THEN Replace(reviews_match, ",", <<>>)
                 ELSE Zero
        ELSE Zero

\* lines 116-120: an href that is missing or empty is falsy
ExtractUrl(c) ==
    IF c.link /\ c.href # NoTag /\ c.href # <<>>
    THEN base_url \o c.href
    ELSE NA

\* the locals before the first container is probed
NoLocals ==
    [name |-> Unbound, price |-> Unbound, rating |-> Unbound,
     reviews |-> Unbound, product_url |-> Unbound]

\* Lines 73-120 on container c from locals l, when the lookups of field number
\* raiseAt raise (0: nothing raises). The fields before it are assigned; the
\* field itself has been given its default (lines 81, 94, 103, 116; the name
\* has none); the fields after it keep the value the previous container left.
ExtractFields(l, c, raiseAt) ==
    LET done(k) == raiseAt = 0 \/ k < raiseAt
    IN  [name |-> IF done(1) THEN ExtractName(c) ELSE l.name,
         price |-> IF done(2) THEN ExtractPrice(c)
                   ELSE IF raiseAt = 2 THEN NA ELSE l.price,
         rating |-> IF done(3) THEN ExtractRating(c)
                    ELSE IF raiseAt = 3 THEN NA ELSE l.rating,
         reviews |-> IF done(4) THEN ExtractReviews(c)
                     ELSE IF raiseAt = 4 THEN Zero ELSE l.reviews,
         product_url |-> IF done(5) THEN ExtractUrl(c)
                         ELSE IF raiseAt = 5 THEN NA ELSE l.product_url]

RaisePoints == 0..5

\* in a whole run: nothing raises, or the first lookup does
RunRaisePoints == {0, 1}

\* a faulty variant: the sentinel is rejected, a blank name is not
IsValidNameNoTrim(name) == name # NA

\* line 127
IsValidName(name) == name # NA /\ Len(Strip(name)) > 0

\* lines 128-134
MakeRecord(l) ==
    [name |-> l.name, price |-> l.price, rating |-> l.rating,
     reviews |-> l.reviews, url |-> l.product_url]

\* a faulty variant: the handler of line 122 falls through to the filter of line 127
\* (a NameError there is raised past the loop and not modelled further)
AfterItemErrorFallThrough(acc, l) ==
    IF l.name # Unbound /\ IsValidName(l.name) THEN Append(acc, MakeRecord(l)) ELSE acc

\* lines 122-124: the accumulator after the container's extraction raised
AfterItemError(acc, l) == acc

\* lines 127-134: the accumulator after the container's extraction completed
AfterItem(acc, l) ==
    IF IsValidName(l.name) THEN Append(acc, MakeRecord(l)) ELSE acc

----------------------------------------------------------------------------
(* The inputs: pages and containers *)

\* the elements strategy s finds when it matches n of them
Nodes(s, n) == [k \in 1..n |-> [by |-> s, k |-> k]]

\* a parsed page: how many elements each of the three queries of lines 54-56 matches
Markups == [a : 0..MaxItems, b : 0..MaxItems, c : 0..MaxItems]

NoMarkup == [a |-> 0, b |-> 0, c |-> 0]

NameParts ==
    { [h2mini |-> NoTag, h2 |-> NoTag, spanMedium |-> NoTag],
      [h2mini |-> <<" ", "a", " ">>, h2 |-> <<"b">>, spanMedium |-> NoTag],
      [h2mini |-> NoTag, h2 |-> <<"b">>, spanMedium |-> <<"a">>],
      [h2mini |-> NoTag, h2 |-> NoTag, spanMedium |-> <<" ", "\n">>],
      [h2mini |-> NoTag, h2 |-> NoTag, spanMedium |-> NA] }

PriceParts ==
    { [priceBox |-> FALSE, whole |-> NoTag, fraction |-> NoTag, range |-> NoTag] }
    \cup [priceBox : {TRUE},
          whole : {NoTag, <<"1", "9">>, <<" ", "1", " ">>},
          fraction : {NoTag, <<"9", "9">>},
          range : {NoTag, <<" ", "$", "1", "-", "$", "9", " ">>}]

FourPointFive ==
    <<"4", ".", "5", " ", "o", "u", "t", " ", "o", "f", " ", "5", " ",
      "s", "t", "a", "r", "s">>

RatingParts ==
    [iconAlt : {NoTag, FourPointFive, <<"9", ".", "5">>, <<"1", "0", ".", "5">>,
                <<"5", " ", "s", "t", "a", "r", "s">>, <<>>}]

ReviewParts ==
    [spanBase : {NoTag, <<"1", ",", "2", "3", "4", " ", "r", "a", "t", "i", "n", "g", "s">>,
                 <<"a", ",", " ", "b">>, <<"n", "e", "w">>, <<"1", "2">>},
     reviewsCount : {NoTag, <<"3">>}]

LinkParts ==
    { [link |-> FALSE, linkText |-> NoTag, href |-> NoTag],
      [link |-> TRUE, linkText |-> <<"7">>, href |-> <<"/", "d", "p">>],
      [link |-> TRUE, linkText |-> <<",">>, href |-> NoTag],
      [link |-> TRUE, linkText |-> <<>>, href |-> <<>>] }

\* every container the parts make
Containers ==
    { n @@ p @@ r @@ v @@ u :
        n \in NameParts, p \in PriceParts, r \in RatingParts,
        v \in ReviewParts, u \in LinkParts }

\* a container with every other element present, and one with none
Rich ==
    [priceBox |-> TRUE, whole |-> <<"1", "9">>, fraction |-> <<"9", "9">>, range |-> NoTag,
     iconAlt |-> FourPointFive, spanBase |-> <<"1", "2">>, reviewsCount |-> NoTag,
     link |-> TRUE, linkText |-> <<"7">>, href |-> <<"/", "d", "p">>]

Bare ==
    [priceBox |-> FALSE, whole |-> NoTag, fraction |-> NoTag, range |-> NoTag,
     iconAlt |-> NoTag, spanBase |-> NoTag, reviewsCount |-> NoTag,
     link |-> FALSE, linkText |-> NoTag, href |-> NoTag]

HasNameTag(c) == c.h2mini # NoTag \/ c.h2 # NoTag \/ c.spanMedium # NoTag

NoName == [h2mini |-> NoTag, h2 |-> NoTag, spanMedium |-> NoTag]

\* the containers of a page of several: every name part, with the other
\* elements all present or all absent
PageContainers == { n @@ r : n \in NameParts, r \in {Rich, Bare} }

\* the containers of the pages of a whole run: one that makes a record and one
\* that makes none
RunContainers ==
    { [h2mini |-> <<" ", "a", " ">>, h2 |-> <<"b">>, spanMedium |-> NoTag] @@ Rich,
      NoName @@ Bare }

TermInputs == { <<>>, <<" ", " ">>, <<" ", "a", " ", "b", " ">> }

PageInputs ==
    { IntText(n) : n \in (0 - 1)..MaxPagesInput }
    \cup { IntText(MaxPageCount + 1), <<"x">>, <<>>, <<"1", ".", "5">> }

----------------------------------------------------------------------------
(* scrape_amazon_products (lines 31-139) *)

\* x or y, for lists: an empty list is falsy
OrList(x, y) == IF x # <<>> THEN x ELSE y

\* a faulty variant: the three result sets are joined
LocateUnion(m) ==
    [found |-> Nodes("a", m.a) \o Nodes("b", m.b) \o Nodes("c", m.c),
     evaluated |-> {"a", "b", "c"}]

\* lines 54-56: the containers of a page, and the queries that were evaluated
Locate(m) ==
    [found |-> OrList(Nodes("a", m.a), OrList(Nodes("b", m.b), Nodes("c", m.c))),
     evaluated |-> {"a"} \cup (IF m.a = 0 THEN {"b"} ELSE {})
                         \cup (IF m.a = 0 /\ m.b = 0 THEN {"c"} ELSE {})]

\* line 37: the loop goes to its next iteration, or ends
NextIteration(p, n) ==
    IF p < n THEN [pc |-> "fetch", page |-> p + 1] ELSE [pc |-> "return", page |-> p]

\* a faulty variant: the page loop is left
ContinueAsBreak(p, n) == [pc |-> "return", page |-> p]

\* lines 49, 60, 66, 69: continue
Continue(p, n) == NextIteration(p, n)

\* a response that is not a 200, requests.RequestException, any other Exception
FetchFailures == {"non200", "request_exception", "exception"}

\* lines 43-49, 64-69: the request of line 45 returns another status than 200,
\* or raises; soup and items keep what the previous page left
FetchFails ==
    /\ pc = "fetch"
    /\ \E outcome \in FetchFailures :
          fetched' = Append(fetched, [page |-> page, outcome |-> outcome, located |-> 0])
    /\ pc' = Continue(page, pages_to_scrape).pc
    /\ page' = Continue(page, pages_to_scrape).page
    /\ UNCHANGED <<term_input, pages_input, search_term, pages_to_scrape, scrapeCalled,
                   soup, evaluated, items, idx, item, loc, lastResult, products, origin,
                   delay, pausedAfter, scraped_data, csv, exitReason>>

\* lines 43-62: the request of a page returns 200 and its containers are located
FetchOk ==
    /\ pc = "fetch"
    /\ \E m \in Markups :
          /\ soup' = m
          /\ items' = Locate(m).found
          /\ evaluated' = Locate(m).evaluated
    /\ fetched' = Append(fetched,
                         [page |-> page, outcome |-> "200", located |-> Len(items')])
    /\ IF items' = <<>>
       THEN /\ pc' = Continue(page, pages_to_scrape).pc
            /\ page' = Continue(page, pages_to_scrape).page
            /\ idx' = idx
       ELSE /\ pc' = "items"
            /\ page' = page
            /\ idx' = 1
    /\ UNCHANGED <<term_input, pages_input, search_term, pages_to_scrape, scrapeCalled,
                   item, loc, lastResult, products, origin, delay, pausedAfter,
                   scraped_data, csv, exitReason>>

\* lines 71-134: one iteration of the loop over items, on a container of C
\* whose lookups raise at a point of R
Probe(C, R) ==
    /\ pc = "items"
    /\ \E c \in C, raiseAt \in R :
          /\ item' = c
          /\ loc' = ExtractFields(loc, c, raiseAt)
          /\ products' = IF raiseAt # 0 THEN AfterItemError(products, loc')
                                        ELSE AfterItem(products, loc')
          /\ lastResult' = IF raiseAt # 0 THEN "raised"
                           ELSE IF Len(products') > Len(products) THEN "appended"
                           ELSE "dropped"
    /\ origin' = IF Len(products') > Len(products)
                 THEN Append(origin, [page |-> page, k |-> idx])
                 ELSE origin
    /\ idx' = idx + 1
    /\ pc' = IF idx < Len(items) THEN "items" ELSE "sleep"
    /\ UNCHANGED <<term_input, pages_input, search_term, pages_to_scrape, scrapeCalled,
                   page, fetched, soup, evaluated, items, delay, pausedAfter,
                   scraped_data, csv, exitReason>>

ProbeItem == Probe(RunContainers, RunRaisePoints)

ProbePageItem == Probe(PageContainers, RaisePoints)

ProbeAnyItem == Probe(Containers, RaisePoints)

\* line 137: randint(2, 4) is drawn and sleep() is entered
SleepBegin ==
    /\ pc = "sleep"
    /\ \E d \in MinDelay..MaxDelay : delay' = d
    /\ pc' = "sleeping"
    /\ UNCHANGED <<term_input, pages_input, search_term, pages_to_scrape, scrapeCalled,
                   page, fetched, soup, evaluated, items, idx, item, loc, lastResult,
                   products, origin, pausedAfter, scraped_data, csv, exitReason>>

\* line 137: sleep() returns, and the iteration of the page loop ends
SleepEnd ==
    /\ pc = "sleeping"
    /\ delay' = 0
    /\ pausedAfter' = page
    /\ pc' = NextIteration(page, pages_to_scrape).pc
    /\ page' = NextIteration(page, pages_to_scrape).page
    /\ UNCHANGED <<term_input, pages_input, search_term, pages_to_scrape, scrapeCalled,
                   fetched, soup, evaluated, items, idx, item, loc, lastResult,
                   products, origin, scraped_data, csv, exitReason>>

----------------------------------------------------------------------------
(* The main flow (lines 158-197) and save_to_csv (lines 141-156) *)

Running == [why |-> "running", at |-> "none"]

Exit(why, at) == [why |-> why, at |-> at]

NoCsv == [status |-> "none", filename |-> <<>>, rows |-> <<>>]

\* a faulty variant: a page count of 0 is let through
PageCountRejectedFromBelowZero(n) == n < 0 \/ n > MaxPageCount

\* line 173
PageCountRejected(n) == n <= 0 \/ n > MaxPageCount

\* a faulty variant: the file is written whatever was scraped
SaveAlways(data) == TRUE

\* line 181: a list is truthy when it is not empty
ShouldSave(data) == data # <<>>

\* line 182
OutputFilename(term) ==
    Replace(term, "+", <<"_">>) \o
    <<"_", "p", "r", "o", "d", "u", "c", "t", "s", ".", "c", "s", "v">>

\* lines 165-170
InputSearchTerm ==
    /\ pc = "input_term"
    /\ \E t \in TermInputs :
          /\ term_input' = t
          /\ IF Strip(t) = <<>>
             THEN /\ search_term' = <<>>
                  /\ pc' = "exit"
                  /\ exitReason' = Exit("no_search_term", pc)
             ELSE /\ search_term' = Replace(Strip(t), " ", <<"+">>)
                  /\ pc' = "input_pages"
                  /\ exitReason' = exitReason
    /\ UNCHANGED <<pages_input, pages_to_scrape, scrapeCalled, page, fetched, soup,
                   evaluated, items, idx, item, loc, lastResult, products, origin,
                   delay, pausedAfter, scraped_data, csv>>

\* lines 171-179, 192-193: the page count is read and checked, and
\* scrape_amazon_products is entered (lines 34-37)
InputPages ==
    /\ pc = "input_pages"
    /\ \E t \in PageInputs :
          /\ pages_input' = t
          /\ IF ~ParseInt(t).ok
             THEN /\ pages_to_scrape' = pages_to_scrape
                  /\ pc' = "exit"
                  /\ exitReason' = Exit("value_error", pc)
                  /\ UNCHANGED <<scrapeCalled, page>>
             ELSE /\ pages_to_scrape' = ParseInt(t).val
                  /\ IF PageCountRejected(pages_to_scrape')
                     THEN /\ pc' = "exit"
                          /\ exitReason' = Exit("out_of_range", pc)
                          /\ UNCHANGED <<scrapeCalled, page>>
                     ELSE /\ scrapeCalled' = TRUE
                          /\ exitReason' = exitReason
                          /\ IF pages_to_scrape' >= 1
                             THEN pc' = "fetch" /\ page' = 1
                             ELSE pc' = "return" /\ page' = page
    /\ UNCHANGED <<term_input, search_term, fetched, soup, evaluated, items, idx, item,
                   loc, lastResult, products, origin, delay, pausedAfter, scraped_data,
                   csv>>

\* lines 139, 179-190: the accumulator is returned and looked at
ReturnProducts ==
    /\ pc = "return"
    /\ scraped_data' = products
    /\ IF ShouldSave(scraped_data')
       THEN pc' = "save" /\ exitReason' = exitReason
       ELSE pc' = "exit" /\ exitReason' = Exit("no_data", pc)
    /\ UNCHANGED <<term_input, pages_input, search_term, pages_to_scrape, scrapeCalled,
                   page, fetched, soup, evaluated, items, idx, item, loc, lastResult,
                   products, origin, delay, pausedAfter, csv>>

\* lines 141-156, 183-184: the file is written, or an error is caught and printed
SaveToCsv ==
    /\ pc = "save"
    /\ \E status \in {"written", "io_error"} :
          csv' = [status |-> status,
                  filename |-> OutputFilename(search_term),
                  rows |-> IF status = "written" THEN scraped_data ELSE <<>>]
    /\ pc' = "exit"
    /\ exitReason' = Exit("completed", pc)
    /\ UNCHANGED <<term_input, pages_input, search_term, pages_to_scrape, scrapeCalled,
                   page, fetched, soup, evaluated, items, idx, item, loc, lastResult,
                   products, origin, delay, pausedAfter, scraped_data>>

\* lines 194-195: KeyboardInterrupt, wherever the process is
Interrupt ==
    /\ pc # "exit"
    /\ pc' = "exit"
    /\ exitReason' = Exit("interrupted", pc)
    /\ delay' = 0
    /\ csv' = IF pc = "save"
              THEN [status |-> "interrupted", filename |-> OutputFilename(search_term),
                    rows |-> <<>>]
              ELSE csv
    /\ UNCHANGED <<term_input, pages_input, search_term, pages_to_scrape, scrapeCalled,
                   page, fetched, soup, evaluated, items, idx, item, loc, lastResult,
                   products, origin, pausedAfter, scraped_data>>

----------------------------------------------------------------------------
(* The whole program *)

Init ==
    /\ pc = "input_term"
    /\ term_input = <<>>
    /\ pages_input = <<>>
    /\ search_term = <<>>
    /\ pages_to_scrape = 0
    /\ scrapeCalled = FALSE
    /\ page = 0
    /\ fetched = <<>>
    /\ soup = NoMarkup
    /\ evaluated = {}
    /\ items = <<>>
    /\ idx = 0
    /\ item = NoName @@ Bare
    /\ loc = NoLocals
    /\ lastResult = "none"
    /\ products = <<>>
    /\ origin = <<>>
    /\ delay = 0
    /\ pausedAfter = 0
    /\ scraped_data = <<>>
    /\ csv = NoCsv
    /\ exitReason = Running

Next ==
    \/ InputSearchTerm
    \/ InputPages
    \/ FetchFails
    \/ FetchOk
    \/ ProbeItem
    \/ SleepBegin
    \/ SleepEnd
    \/ ReturnProducts
    \/ SaveToCsv
    \/ Interrupt

Spec == Init /\ [][Next]_vars

(* One call scrape_amazon_products(term, pages=1) whose page holds n         *)
(* containers, all found by the first query: the state at line 71           *)

OnePage(n) ==
    /\ pc = "items"
    /\ term_input = <<"a">>
    /\ pages_input = <<"1">>
    /\ search_term = <<"a">>
    /\ pages_to_scrape = 1
    /\ scrapeCalled = TRUE
    /\ page = 1
    /\ fetched = <<[page |-> 1, outcome |-> "200", located |-> n]>>
    /\ soup = [a |-> n, b |-> 0, c |-> 0]
    /\ evaluated = Locate(soup).evaluated
    /\ items = Locate(soup).found
    /\ idx = 1
    /\ item = NoName @@ Bare
    /\ loc = NoLocals
    /\ lastResult = "none"
    /\ products = <<>>
    /\ origin = <<>>
    /\ delay = 0
    /\ pausedAfter = 0
    /\ scraped_data = <<>>
    /\ csv = NoCsv
    /\ exitReason = Running

(* A page of up to MaxItems containers of PageContainers *)

InitOnePage == \E n \in 1..MaxItems : OnePage(n)

NextOnePage ==
    \/ ProbePageItem
    \/ SleepBegin
    \/ SleepEnd
    \/ ReturnProducts

SpecOnePage == InitOnePage /\ [][NextOnePage]_vars

(* A page of one container, which is any of Containers *)

InitOneContainer == OnePage(1)

NextOneContainer ==
    \/ ProbeAnyItem
    \/ SleepBegin
    \/ SleepEnd
    \/ ReturnProducts

SpecOneContainer == InitOneContainer /\ [][NextOneContainer]_vars

----------------------------------------------------------------------------
(* Properties *)

RecordKeys == {"name", "price", "rating", "reviews", "url"}

\* the page loop ran to its end and scrape_amazon_products returned
Returned == pc = "save" \/ exitReason.why \in {"no_data", "completed"}
            \/ (exitReason.why = "interrupted" /\ exitReason.at = "save")

PageCountValid ==
    /\ ParseInt(pages_input).ok
    /\ ParseInt(pages_input).val >= 1
    /\ ParseInt(pages_input).val <= MaxPageCount

\* C1: every iteration of the page loop ends with the pause: when page p + 1
\* is about to be fetched the pause after page p has been executed, and when
\* the loop has ended the pause after the last page has been executed,
\* whatever the outcome of the page was.
C1_PauseAfterEveryPage ==
    /\ pc = "fetch" => pausedAfter = page - 1
    /\ pc = "return" => pausedAfter = pages_to_scrape

\* C2: no record of the accumulator, nor of the returned list, has the
\* sentinel name or a name that is empty after trimming; every record has the
\* five keys; a container without a name element is never appended.
C2_NoUnnamedRecord ==
    /\ \A i \in 1..Len(products) :
          /\ products[i].name # NA
          /\ Strip(products[i].name) # <<>>
          /\ DOMAIN products[i] = RecordKeys
    /\ lastResult = "appended" => HasNameTag(item)
    /\ Returned => scraped_data = products

C2_Witness ==
    /\ lastResult = "dropped"
    /\ ~HasNameTag(item)
    /\ item.priceBox /\ item.iconAlt # NoTag /\ item.link
    /\ products # <<>>

\* C3: the pages are fetched once each in ascending order; a page whose fetch
\* failed contributes no record; the run goes on after a failure, so that
\* when scrape_amazon_products returns every page 1..N was fetched; when
\* every fetch gave a non-200 status the returned list is empty.
C3_FailedPageSkipped ==
    /\ \A i \in 1..Len(fetched) : fetched[i].page = i
    /\ \A i \in 1..Len(origin) : fetched[origin[i].page].outcome = "200"
    /\ pc = "fetch" => Len(fetched) = page - 1
    /\ (pc = "return" \/ Returned) => Len(fetched) = pages_to_scrape
    /\ (Returned /\ \A i \in 1..Len(fetched) : fetched[i].outcome = "non200")
          => scraped_data = <<>> /\ pc = "exit" /\ exitReason.why = "no_data"

C3_Witness ==
    /\ exitReason.why = "completed"
    /\ Len(fetched) = 2
    /\ fetched[1].outcome \in FetchFailures
    /\ fetched[2].outcome = "200"
    /\ Len(products) = 2

\* C4: scrape_amazon_products is called, and a request issued, only when the
\* query is not empty and the page count is an integer of 1..10; a run with
\* another input has ended with a message.
C4_BadInputNoRequest ==
    /\ (scrapeCalled \/ fetched # <<>>) => (Strip(term_input) # <<>> /\ PageCountValid)
    /\ exitReason.why \in {"no_search_term", "value_error", "out_of_range"}
          => (pc = "exit" /\ ~scrapeCalled /\ fetched = <<>>)
    /\ (pc \notin {"input_term", "input_pages"} /\ exitReason.why # "interrupted")
          => (exitReason.why = "no_search_term" <=> Strip(term_input) = <<>>)
    /\ (pc \notin {"input_term", "input_pages"} /\ exitReason.why # "interrupted"
        /\ Strip(term_input) # <<>>)
          => (exitReason.why \in {"value_error", "out_of_range"} <=> ~PageCountValid)

C4_Witness ==
    /\ exitReason.why = "out_of_range"
    /\ pages_input = <<"1", "1">>
    /\ fetched = <<>>

\* C5: save_to_csv is called only when the query is not empty, the page count
\* is valid, the page loop ran over all the pages and the returned list is
\* not empty; a run that ends by a missing query, a bad page count, an
\* interruption before the loop ended, or no record, writes nothing.
C5_SaveOnlyAfterCompleteRun ==
    /\ (pc = "save" \/ csv # NoCsv)
          => /\ Strip(term_input) # <<>>
             /\ PageCountValid
             /\ Len(fetched) = pages_to_scrape
             /\ scraped_data # <<>>
             /\ scraped_data = products
    /\ ( \/ exitReason.why \in {"no_search_term", "value_error", "out_of_range", "no_data"}
         \/ (exitReason.why = "interrupted" /\ exitReason.at # "save") )
          => csv = NoCsv

C5_Witness ==
    /\ exitReason.why = "interrupted"
    /\ exitReason.at = "sleeping"
    /\ page = 2
    /\ Len(products) >= 2
    /\ csv = NoCsv

\* C6: the reviews of every record are a non-empty text of decimal digits,
\* and "0" when the container has no reviews element.
C6_ReviewsIsNumber ==
    /\ \A i \in 1..Len(products) :
          /\ products[i].reviews # NA
          /\ products[i].reviews # <<>>
          /\ \A k \in 1..Len(products[i].reviews) : IsDigit(products[i].reviews[k])
    /\ (lastResult = "appended" /\ item.spanBase = NoTag /\ ~item.link
        /\ item.reviewsCount = NoTag)
          => products[Len(products)].reviews = Zero

\* C7: the rating of every record is the sentinel or a text digit '.' digit
\* whose value is in [0.0, 5.0]; it is "4.5" for "4.5 out of 5 stars".
C7_RatingInRange ==
    /\ \A i \in 1..Len(products) :
          LET r == products[i].rating
          IN  \/ r = NA
              \/ /\ Len(r) = 3 /\ IsDigit(r[1]) /\ r[2] = "." /\ IsDigit(r[3])
                 /\ DigitVal(r[1]) * 10 + DigitVal(r[3]) <= 50
    /\ (lastResult = "appended" /\ item.iconAlt = FourPointFive)
          => products[Len(products)].rating = <<"4", ".", "5">>

\* C8: the price of a record is '$' + whole + '.' + fraction (the trimmed
\* texts) when the price box has both sub-elements; otherwise the trimmed
\* range text when it has a range sub-element; otherwise the sentinel.
C8_PriceByCases ==
    lastResult = "appended" =>
        LET c == item
            price == products[Len(products)].price
        IN  /\ (c.priceBox /\ c.whole # NoTag /\ c.fraction # NoTag)
                  => price = <<"$">> \o Strip(c.whole) \o <<".">> \o Strip(c.fraction)
            /\ (c.priceBox /\ c.whole = <<"1", "9">> /\ c.fraction = <<"9", "9">>)
                  => price = <<"$", "1", "9", ".", "9", "9">>
            /\ (c.priceBox /\ (c.whole = NoTag \/ c.fraction = NoTag) /\ c.range # NoTag)
                  => price = Strip(c.range)
            /\ (~c.priceBox \/ ((c.whole = NoTag \/ c.fraction = NoTag) /\ c.range = NoTag))
                  => price = NA

C8_Witness ==
    /\ lastResult = "appended"
    /\ item.priceBox /\ item.whole = <<" ", "1", " ">> /\ item.fraction = NoTag
    /\ item.range = NoTag
    /\ products[Len(products)].price = NA

\* C9: a step of the loop over items in which the extraction raises leaves
\* the accumulator as it was and goes on to the next container of the page.
C9_RaisingContainerSkipped ==
    [][ (pc = "items" /\ pc' \in {"items", "sleep"} /\ lastResult' = "raised")
          => /\ products' = products
             /\ idx' = idx + 1
             /\ (idx < Len(items) => pc' = "items") ]_vars

C9_Witness ==
    /\ lastResult = "raised"
    /\ pc = "items"
    /\ idx = 2
    /\ loc.name = <<"a">>
    /\ loc.price = <<"$", "1", "9", ".", "9", "9">>
    /\ products = <<>>

\* C10: the containers of a page are the result of the first query, in the
\* order a, b, c, that matches anything: all of one query, the later queries
\* not evaluated; a page where none matches contributes no record and the
\* loop goes on.
C10_FirstNonEmptyStrategy ==
    /\ \A i, j \in 1..Len(items) : items[i].by = items[j].by
    /\ items = IF soup.a > 0 THEN Nodes("a", soup.a)
               ELSE IF soup.b > 0 THEN Nodes("b", soup.b)
               ELSE Nodes("c", soup.c)
    /\ (\E i \in 1..Len(fetched) : fetched[i].outcome = "200")
          => evaluated = IF soup.a > 0 THEN {"a"}
                         ELSE IF soup.b > 0 THEN {"a", "b"}
                         ELSE {"a", "b", "c"}
    /\ \A i \in 1..Len(fetched) :
          fetched[i].located = 0 =>
             /\ \A k \in 1..Len(origin) : origin[k].page # i
             /\ (pc = "return" \/ Returned) => Len(fetched) = pages_to_scrape
             /\ (pc = "fetch" /\ i = Len(fetched)) => page = i + 1

C10_Witness ==
    /\ pc = "items"
    /\ soup.a = 0 /\ soup.b = 1 /\ soup.c = 2
    /\ items = <<[by |-> "b", k |-> 1]>>
    /\ evaluated = {"a", "b"}

====
